---- MODULE Spec2Model ----
(***************************************************************************)
(* A model of stf.h (WildFoxStudio/STF): the test suite class              *)
(* Fox::AutomatedTestInstance, the registry Fox::AutomationTester and the  *)
(* RUN_ALL_TESTS entry point.                                              *)
(*                                                                         *)
(* The program is single threaded.  Its control state is a call stack of   *)
(* frames; every action is one step of the function on top of the stack.   *)
(* Code that belongs to the user of the library (main(), the Define()      *)
(* bodies, the bodies of the test functions) is the environment: it calls  *)
(* the public operations with arguments drawn from small sets.             *)
(*                                                                         *)
(* assert() is modelled as compiled in: stf.h never defines NDEBUG, and a  *)
(* failed assert() aborts the process.                                     *)
(*                                                                         *)
(* The environment of Spec: user code either drives a suite of its own     *)
(* (New, TestCase, RunTest, RunAll, ResetFlags, Delete) while nothing is   *)
(* registered, or registers suites and calls RunAllTests, any number of    *)
(* times.  A test function calls TestTrue, TestFalse, TestEqual and        *)
(* OutLog(), at most MaxOps times, and returns; a Define() body calls      *)
(* TestCase.  The output stream is kept as the lines of its last flush:    *)
(* every write of RunAllTests is followed by a flush and never read back.  *)
(*                                                                         *)
(* Indices are kept as in the source (0-based, -1 for "none"); a TLA+      *)
(* sequence is 1-based, so element i of a vector is seq[i + 1].            *)
(***************************************************************************)
EXTENDS Integers, Sequences, FiniteSets, TLC

\* ---------------------------------------------------------------- bounds

\* most test cases one suite instance declares
MaxCases == 2
\* most calls one run of a test function makes into the suite
MaxOps == 2
\* most lines user code streams into OutLog()
MaxLog == 1
\* most AddTest calls of an observed registration sequence
MaxAdds == 4
\* most RunTest calls nested in each other
MaxDepth == 2
\* the arguments user code passes to TestEqual
Values == {5, 6}

\* the names user code passes to TestCase and RunTest
CaseNames == {<<"a", "b", "c", "d">>[k] : k \in 1..MaxCases}
\* the names user code passes to AddTest, in the order of std::map's keys
SuiteNames == <<"A", "B">>
\* the suite classes T of AddTest<T>
Classes == {"T1", "T2"}

\* ---------------------------------------------------------------- types

NOT_TESTED == "NOT_TESTED"
PASSED == "PASSED"
FAILED == "FAILED"
ETestStatus == {NOT_TESTED, PASSED, FAILED}

\* a test case: its name and its function; the function is identified by the
\* ordinal of the TestCase call that passed it
DTestCase(name, testFunction) == [Name |-> name, Func |-> testFunction]

\* a default-constructed suite: the member initialisers
AutomatedTestInstance ==
    [_tests |-> <<>>,
     _testStatus |-> <<>>,
     _failed |-> FALSE,
     _log |-> <<>>,
     _currentRunningTest |-> -1]

\* ---------------------------------------------------------------- state

VARIABLES
    proc,          \* "running", "aborted" (a failed assert) or "exited"
    abortedBy,     \* the function whose assert failed, "" if none
    exitStatus,    \* what main returned through RUN_ALL_TESTS, -1 before
    stack,         \* the call stack, top first
    result,        \* the value the last returned call handed to its caller
    alive,         \* a suite instance exists
    owner,         \* who constructed it: "client" or "RunAllTests"
    inst,          \* the fields of the suite instance
    cerr,          \* what TestEqual wrote to std::cerr
    registry,      \* AutomationTester::_tests
    rat,           \* the locals of RunAllTests
    out,           \* the lines of the last flush of GetOutstream()
    h,             \* history of the current suite instance
    hLast,         \* history: the instances RunAllTests deleted
    hRun,          \* history: what the suites of the current RunAllTests did
    obs,           \* history: the last call user code made and what it returned
    hAdds          \* history: the AddTest calls made so far

vars == <<proc, abortedBy, exitStatus, stack, result, alive, owner, inst, cerr,
          registry, rat, out, h, hLast, hRun, obs, hAdds>>

\* the history of a new instance: what has been declared, invoked and run
NewHistory ==
    [declared |-> <<>>,       \* names of the TestCase calls that returned
     invoked |-> <<>>,        \* Func of every DoWork since the outermost call
     executed |-> {},         \* positions whose run has completed
     assertFailed |-> FALSE,  \* a failing assertion in the current/last action
     prevFailed |-> FALSE,    \* assertFailed of the run before the current/last one
     defineCalls |-> 0,       \* Define() calls on this instance
     defineDone |-> FALSE,    \* a Define() call has returned
     trueRuns |-> 0,          \* RunTest calls of RunAllTests that returned true
     rerun |-> FALSE]         \* the last completed run was of a case that had run before

\* a deleted instance held everything a later instance must not show: a Failed
\* outcome, a set _failed, a current test and log text
Residue(self) ==
    /\ \E i \in DOMAIN self._testStatus : self._testStatus[i] = FAILED
    /\ self._failed
    /\ self._currentRunningTest >= 0
    /\ self._log # <<>>

\* no instance has been deleted yet
NoLast ==
    [thisRun |-> FALSE,  \* the current RunAllTests deleted an instance with residue
     earlier |-> FALSE,  \* an earlier RunAllTests did
     whole |-> TRUE]     \* the delete just executed also destroyed what T adds

\* calls are observed only where a specification switches it on in its initial
\* state; with `on` false obs and hAdds never change
NoObs ==
    [on |-> FALSE,
     op |-> "",          \* the operation of the step just taken, "" if not observed
     name |-> "",        \* its name argument
     value |-> 0,        \* TestEqual: value
     expected |-> 0,     \* TestEqual: expected
     ret |-> "",         \* what it returned, "" if it did not return
     asked |-> "",       \* the declared name GetResult was last asked for since the last run began
     prev |-> "",        \* what GetResult returned then
     text |-> <<>>]      \* the text GetLog() last returned on this instance

Seen(op, name, value, expected, ret) ==
    IF obs.on
    THEN [obs EXCEPT !.op = op, !.name = name, !.value = value, !.expected = expected,
                     !.ret = ret]
    ELSE obs

\* a step that is not observed
Quiet == Seen("", "", 0, 0, "")

\* a step that begins a run, or the life of another instance
Forget(o) == [o EXCEPT !.asked = "", !.prev = ""]

Frame(fn, pc, name, i, passed) ==
    [fn |-> fn, pc |-> pc, name |-> name, i |-> i, passed |-> passed]

NoResult == [fn |-> "", name |-> "", value |-> FALSE]
Returned(fn, name, value) == [fn |-> fn, name |-> name, value |-> value]

NoLocals == [it |-> 0, testPassed |-> 0, subTestNumPassed |-> 0, names |-> <<>>, n |-> 0]

\* ---------------------------------------------------------------- the suite

\* std::find_if over _tests by name: the position (0-based) of the first case
\* called `name`, or size() for end()
RECURSIVE FindFrom(_, _, _)
FindFrom(tests, name, i) ==
    IF i >= Len(tests) THEN Len(tests)
    ELSE IF tests[i + 1].Name = name THEN i
    ELSE FindFrom(tests, name, i + 1)

\* faulty variant of find_if: a name that is not there yields the last case
find_if_or_last(tests, name) ==
    IF FindFrom(tests, name, 0) = Len(tests) /\ Len(tests) > 0
    THEN Len(tests) - 1
    ELSE FindFrom(tests, name, 0)

find_if(tests, name) == FindFrom(tests, name, 0)

\* faulty variant of ResetFlags: _failed survives the reset
ResetFlagsKeepsFailed(self) ==
    [self EXCEPT !._currentRunningTest = -1]

ResetFlags(self) ==
    [self EXCEPT !._failed = FALSE, !._currentRunningTest = -1]

\* faulty variant of TestTrue: a passing assertion clears an earlier failure
TestTrueOverwrites(self, expression) ==
    [self EXCEPT !._failed = ~expression]

TestTrue(self, expression) ==
    [self EXCEPT !._failed = IF ~expression THEN TRUE ELSE @]

TestFalse(self, expression) ==
    [self EXCEPT !._failed = IF expression THEN TRUE ELSE @]

\* TestEqual(int, int) up to its assert: the mismatch branch sets _failed
\* faulty variant of TestEqual: a mismatch does not set _failed
TestEqualKeepsFlag(self, value, expected) ==
    [self EXCEPT !._failed = IF ~(value = expected) THEN @ ELSE @]

TestEqual(self, value, expected) ==
    [self EXCEPT !._failed = IF ~(value = expected) THEN TRUE ELSE @]

GetTestNames(self) ==
    [i \in 1..Len(self._tests) |-> self._tests[i].Name]

GetCurrentRunningTest(self) == self._currentRunningTest

GetLog(self) == self._log

\* faulty variant of ResetLog: the buffer is emptied
ResetLogEmpties(self) ==
    [self EXCEPT !._log = <<>>]

\* _log.clear() is std::basic_ios::clear(): it sets the stream's error state to
\* goodbit and leaves the buffer alone; the model keeps no error state
ResetLog(self) ==
    [self EXCEPT !._log = @]

\* the value GetResult() hands back
UNDEFINED == "UNDEFINED"

\* faulty variant of GetResult: the status next to the matching case
GetResultNeighbour(self, name) ==
    LET i == find_if(self._tests, name)
    IN IF i < Len(self._tests)
       THEN self._testStatus[IF i + 2 \in DOMAIN self._testStatus THEN i + 2 ELSE 1]
       ELSE UNDEFINED

\* GetResult's loop: the status at the first matching name; for a name that is
\* not declared control flows off the end of the function without a return
GetResult(self, name) ==
    LET i == find_if(self._tests, name)
    IN IF i < Len(self._tests) THEN self._testStatus[i + 1] ELSE UNDEFINED

\* faulty variant of TestCase: the new case starts as PASSED
TestCasePushesPassed(self, name, testFunc) ==
    [self EXCEPT !._tests = Append(@, DTestCase(name, testFunc)),
                 !._testStatus = Append(@, PASSED)]

\* the two push_backs of TestCase, after its asserts
TestCase(self, name, testFunc) ==
    [self EXCEPT !._tests = Append(@, DTestCase(name, testFunc)),
                 !._testStatus = Append(@, NOT_TESTED)]

\* RunTest up to the call of the test function
RunTestFind(self, name) ==
    LET reset == ResetFlags(self)
    IN [reset EXCEPT !._currentRunningTest = find_if(reset._tests, name)]

\* faulty variant of RunTestStore: the status is stored for every case
RunTestStoreAll(self) ==
    [self EXCEPT !._testStatus =
        [i \in DOMAIN @ |-> IF self._failed THEN FAILED ELSE PASSED]]

\* RunTest after the test function returned: the status it stores
RunTestStore(self) ==
    [self EXCEPT !._testStatus[self._currentRunningTest + 1] =
                     IF self._failed THEN FAILED ELSE PASSED]

\* ---------------------------------------------------------------- steps

Running == proc = "running"
Idle == Running /\ stack = <<>>
ClientIdle == Idle /\ alive /\ owner = "client"
AtTop(fn, pc) == Running /\ stack # <<>> /\ Head(stack).fn = fn /\ Head(stack).pc = pc
Top == Head(stack)
Goto(pc) == <<[Top EXCEPT !.pc = pc]>> \o Tail(stack)

\* a failed assert(): the process is gone, nothing else moves
Abort(by) ==
    /\ proc' = "aborted"
    /\ abortedBy' = by

\* user code constructs a suite of its own
New ==
    /\ Idle /\ ~alive
    /\ DOMAIN registry = {}
    /\ alive' = TRUE
    /\ owner' = "client"
    /\ inst' = AutomatedTestInstance
    /\ h' = NewHistory
    /\ result' = NoResult
    /\ UNCHANGED <<proc, abortedBy, exitStatus, stack, cerr, registry, rat, out, hLast, hRun>>
    /\ obs' = [Forget(Quiet) EXCEPT !.text = <<>>]
    /\ UNCHANGED hAdds

\* user code destroys its suite
Delete ==
    /\ ClientIdle
    /\ alive' = FALSE
    /\ inst' = AutomatedTestInstance
    /\ h' = NewHistory
    /\ result' = NoResult
    /\ UNCHANGED <<proc, abortedBy, exitStatus, stack, owner, cerr, registry, rat, out, hLast, hRun>>
    /\ obs' = [Forget(Quiet) EXCEPT !.text = <<>>]
    /\ UNCHANGED hAdds

\* TestCase(name, testFunc), called by user code or by a Define() body
\* faulty variant of TestCaseCall: the name is not looked up first
TestCaseCallUnchecked(name) ==
    /\ ClientIdle \/ AtTop("Define", "body")
    /\ Len(inst._tests) < MaxCases
    /\ inst' = TestCase(inst, name, Len(h.declared) + 1)
    /\ h' = [h EXCEPT !.declared = Append(@, name)]
    /\ result' = NoResult
    /\ UNCHANGED <<proc, abortedBy, exitStatus, stack, alive, owner, cerr, registry, rat, out, hLast, hRun>>
    /\ obs' = Seen("TestCase", name, 0, 0, "")
    /\ UNCHANGED hAdds

TestCaseCall(name) ==
    /\ ClientIdle \/ AtTop("Define", "body")
    /\ Len(inst._tests) < MaxCases
    /\ IF find_if(inst._tests, name) # Len(inst._tests)
       THEN /\ Abort("TestCase")
            /\ UNCHANGED <<inst, h>>
       ELSE /\ inst' = TestCase(inst, name, Len(h.declared) + 1)
            /\ h' = [h EXCEPT !.declared = Append(@, name)]
            /\ UNCHANGED <<proc, abortedBy>>
    /\ result' = NoResult
    /\ UNCHANGED <<exitStatus, stack, alive, owner, cerr, registry, rat, out, hLast, hRun>>
    /\ obs' = Seen("TestCase", name, 0, 0, "")
    /\ UNCHANGED hAdds

\* ResetFlags(), called by user code between runs
ResetFlagsCall ==
    /\ ClientIdle
    /\ inst' = ResetFlags(inst)
    /\ result' = NoResult
    /\ UNCHANGED <<proc, abortedBy, exitStatus, stack, alive, owner, cerr, registry, rat, out, h, hLast, hRun>>
    /\ obs' = Quiet
    /\ UNCHANGED hAdds

\* user code calls RunTest(name)
RunTestCall(name) ==
    /\ ClientIdle
    /\ stack' = <<Frame("RunTest", "begin", name, 0, 0)>>
    /\ result' = NoResult
    /\ h' = [h EXCEPT !.invoked = <<>>]
    /\ UNCHANGED <<proc, abortedBy, exitStatus, alive, owner, inst, cerr, registry, rat, out, hLast, hRun>>
    /\ obs' = Forget(Quiet)
    /\ UNCHANGED hAdds

\* RunTest: ResetFlags, find_if, assert, _currentRunningTest, found->DoWork()
RunTestBegin ==
    /\ AtTop("RunTest", "begin")
    /\ LET found == find_if(inst._tests, Top.name)
       IN IF found = Len(inst._tests)
          THEN /\ Abort("RunTest")
               /\ inst' = ResetFlags(inst)
               /\ UNCHANGED <<stack, h>>
          ELSE /\ inst' = RunTestFind(inst, Top.name)
               /\ stack' = <<Frame("DoWork", "body", Top.name, 0, 0)>>
                              \o <<[Top EXCEPT !.pc = "work", !.i = found]>> \o Tail(stack)
               /\ h' = [h EXCEPT !.invoked = Append(@, inst._tests[found + 1].Func),
                                 !.assertFailed = FALSE,
                                 !.prevFailed = h.assertFailed]
               /\ UNCHANGED <<proc, abortedBy>>
    /\ UNCHANGED <<exitStatus, result, alive, owner, cerr, registry, rat, out, hLast, hRun>>
    /\ obs' = Quiet
    /\ UNCHANGED hAdds

\* the test function calls TestTrue(expression)
TestTrueCall(expression) ==
    /\ AtTop("DoWork", "body") /\ Top.i < MaxOps
    /\ inst' = TestTrue(inst, expression)
    /\ stack' = <<[Top EXCEPT !.i = @ + 1]>> \o Tail(stack)
    /\ h' = [h EXCEPT !.assertFailed = @ \/ ~expression]
    /\ UNCHANGED <<proc, abortedBy, exitStatus, result, alive, owner, cerr, registry, rat, out, hLast, hRun>>
    /\ obs' = Quiet
    /\ UNCHANGED hAdds

\* the test function calls TestFalse(expression)
TestFalseCall(expression) ==
    /\ AtTop("DoWork", "body") /\ Top.i < MaxOps
    /\ inst' = TestFalse(inst, expression)
    /\ stack' = <<[Top EXCEPT !.i = @ + 1]>> \o Tail(stack)
    /\ h' = [h EXCEPT !.assertFailed = @ \/ expression]
    /\ UNCHANGED <<proc, abortedBy, exitStatus, result, alive, owner, cerr, registry, rat, out, hLast, hRun>>
    /\ obs' = Quiet
    /\ UNCHANGED hAdds

\* the test function calls TestEqual(value, expected): on a mismatch it writes
\* to std::cerr, sets _failed and reaches assert(false)
TestEqualCall(value, expected) ==
    /\ AtTop("DoWork", "body") /\ Top.i < MaxOps
    /\ inst' = TestEqual(inst, value, expected)
    /\ stack' = <<[Top EXCEPT !.i = @ + 1]>> \o Tail(stack)
    /\ IF ~(value = expected)
       THEN /\ cerr' = Append(cerr, [In |-> GetTestNames(inst)[GetCurrentRunningTest(inst) + 1],
                                     expected |-> expected, value |-> value])
            /\ h' = [h EXCEPT !.assertFailed = TRUE]
            /\ Abort("TestEqual")
       ELSE UNCHANGED <<cerr, h, proc, abortedBy>>
    /\ UNCHANGED <<exitStatus, result, alive, owner, registry, rat, out, hLast, hRun>>
    /\ obs' = Seen("TestEqual", Top.name, value, expected,
                    IF value = expected THEN "true" ELSE "")
    /\ UNCHANGED hAdds

\* the test function streams a line into OutLog()
OutLogCall ==
    /\ AtTop("DoWork", "body") /\ Top.i < MaxOps
    /\ Len(inst._log) < MaxLog
    /\ inst' = [inst EXCEPT !._log = Append(@, Top.name)]
    /\ stack' = <<[Top EXCEPT !.i = @ + 1]>> \o Tail(stack)
    /\ UNCHANGED <<proc, abortedBy, exitStatus, result, alive, owner, cerr, registry, rat, out, h, hLast, hRun>>
    /\ obs' = Quiet
    /\ UNCHANGED hAdds

\* the test function returns
DoWorkReturn ==
    /\ AtTop("DoWork", "body")
    /\ stack' = Tail(stack)
    /\ UNCHANGED <<proc, abortedBy, exitStatus, result, alive, owner, inst, cerr, registry, rat,
                   out, h, hLast, hRun>>
    /\ obs' = Quiet
    /\ UNCHANGED hAdds

\* RunTest: the status store and the return
RunTestEnd ==
    /\ AtTop("RunTest", "work")
    /\ inst._currentRunningTest + 1 \in DOMAIN inst._testStatus
    /\ inst' = RunTestStore(inst)
    /\ result' = Returned("RunTest", Top.name, ~inst._failed)
    /\ stack' = Tail(stack)
    /\ h' = [h EXCEPT !.executed = @ \cup {Top.i},
                      !.trueRuns = IF owner = "RunAllTests" /\ ~inst._failed THEN @ + 1 ELSE @,
                      !.rerun = Top.i \in h.executed]
    /\ UNCHANGED <<proc, abortedBy, exitStatus, alive, owner, cerr, registry, rat, out, hLast, hRun>>
    /\ obs' = Quiet
    /\ UNCHANGED hAdds

\* user code calls RunAll()
RunAllCall ==
    /\ ClientIdle
    /\ stack' = <<Frame("RunAll", "loop", "", 0, 0)>>
    /\ result' = NoResult
    /\ h' = [h EXCEPT !.invoked = <<>>]
    /\ UNCHANGED <<proc, abortedBy, exitStatus, alive, owner, inst, cerr, registry, rat, out, hLast, hRun>>
    /\ obs' = Forget(Quiet)
    /\ UNCHANGED hAdds

\* faulty variant of RunAllMore: the loop stops one case early
RunAllMoreOffByOne(i, tests) == i < Len(tests) - 1

\* RunAll: the loop test
RunAllMore(i, tests) == i < Len(tests)

\* RunAll: one iteration up to the call of RunTest(test.Name)
RunAllLoop ==
    /\ AtTop("RunAll", "loop")
    /\ RunAllMore(Top.i, inst._tests)
    /\ inst' = ResetFlags(inst)
    /\ stack' = <<Frame("RunTest", "begin", inst._tests[Top.i + 1].Name, 0, 0)>> \o Goto("ret")
    /\ UNCHANGED <<proc, abortedBy, exitStatus, result, alive, owner, cerr, registry, rat, out, h, hLast, hRun>>
    /\ obs' = Quiet
    /\ UNCHANGED hAdds

\* RunAll: passed += RunTest(...); i++
RunAllAcc ==
    /\ AtTop("RunAll", "ret")
    /\ stack' = <<[Top EXCEPT !.pc = "loop", !.i = @ + 1,
                              !.passed = IF result.value THEN @ + 1 ELSE @]>> \o Tail(stack)
    /\ result' = NoResult
    /\ UNCHANGED <<proc, abortedBy, exitStatus, alive, owner, inst, cerr, registry, rat, out, h, hLast, hRun>>
    /\ obs' = Quiet
    /\ UNCHANGED hAdds

\* RunAll: return (passed == _tests.size())
RunAllReturn ==
    /\ AtTop("RunAll", "loop")
    /\ ~RunAllMore(Top.i, inst._tests)
    /\ result' = Returned("RunAll", "", Top.passed = Len(inst._tests))
    /\ stack' = Tail(stack)
    /\ UNCHANGED <<proc, abortedBy, exitStatus, alive, owner, inst, cerr, registry, rat, out, h, hLast, hRun>>
    /\ obs' = Quiet
    /\ UNCHANGED hAdds

\* ---------------------------------------------------------------- the registry

\* the keys of the std::map _tests in its iteration order
Keys(tests) == SelectSeq(SuiteNames, LAMBDA k : k \in DOMAIN tests)

\* faulty variant of AddTest: the map is replaced by the one new entry
AddTestAlone(tests, testName, T) ==
    [k \in {testName} |-> T]

\* _tests[testName] = factory of T
AddTest(tests, testName, T) ==
    [k \in DOMAIN tests \cup {testName} |-> IF k = testName THEN T ELSE tests[k]]

\* faulty variant of Factory: the instance comes up with a test marked as running
FactoryStale(T) == [AutomatedTestInstance EXCEPT !._currentRunningTest = 0]

\* the factory AddTest<T> stored: new T
Factory(T) == AutomatedTestInstance

\* static_cast<unsigned int>(bool)
BoolToUnsigned(b) == IF b THEN 1 ELSE 0

\* faulty variant of CountPassed: every run counts as passed
CountPassedEvery(subTestNumPassed, res) == subTestNumPassed + 1

\* RunAllTests: subTestNumPassed += static_cast<unsigned int>(result)
CountPassed(subTestNumPassed, res) == subTestNumPassed + BoolToUnsigned(res)

\* faulty variant of SuitePassed: a suite without cases does not pass
SuitePassedNonEmpty(subTestNumPassed, self) ==
    subTestNumPassed = Len(GetTestNames(self)) /\ Len(GetTestNames(self)) > 0

\* RunAllTests: the suite passed when every case of it did
SuitePassed(subTestNumPassed, self) == subTestNumPassed = Len(GetTestNames(self))

\* faulty variant of AllPassed: one passing suite is enough
AllPassedAny(testPassed, tests) == testPassed > 0 \/ Cardinality(DOMAIN tests) = 0

\* RunAllTests: its result
AllPassed(testPassed, tests) == testPassed = Cardinality(DOMAIN tests)

\* RUN_ALL_TESTS: return !RunAllTests(argc, argv), from main
ExitStatus(ranAll) == BoolToUnsigned(~ranAll)

\* a TestInserter or main registers a suite class
\* faulty variant of AddTestCall: a registered name is rejected with an assert
AddTestCallRejects(testName, T) ==
    /\ Idle /\ ~alive
    /\ IF testName \in DOMAIN registry
       THEN Abort("AddTest") /\ UNCHANGED registry
       ELSE registry' = AddTest(registry, testName, T) /\ UNCHANGED <<proc, abortedBy>>
    /\ result' = NoResult
    /\ UNCHANGED <<exitStatus, stack, alive, owner, inst, cerr, rat, out, h, hLast, hRun>>
    /\ obs.on => Len(hAdds) < MaxAdds
    /\ hAdds' = IF obs.on THEN Append(hAdds, <<testName, T>>) ELSE hAdds
    /\ obs' = Seen("AddTest", testName, 0, 0, "")

\* main, or a TestInserter during static initialisation, calls AddTest<T>(testName)
AddTestCall(testName, T) ==
    /\ Idle /\ ~alive
    /\ registry' = AddTest(registry, testName, T)
    /\ result' = NoResult
    /\ UNCHANGED <<proc, abortedBy, exitStatus, stack, alive, owner, inst, cerr, rat, out,
                   h, hLast, hRun>>
    /\ obs.on => Len(hAdds) < MaxAdds
    /\ hAdds' = IF obs.on THEN Append(hAdds, <<testName, T>>) ELSE hAdds
    /\ obs' = Seen("AddTest", testName, 0, 0, "")

\* main calls RunAllTests: SetupOutstream, testPassed{}
RunAllTestsCall ==
    /\ Idle /\ ~alive
    /\ stack' = <<Frame("RunAllTests", "loop", "", 0, 0)>>
    /\ rat' = NoLocals
    /\ out' = <<>>
    /\ hRun' = <<>>
    /\ hLast' = [hLast EXCEPT !.earlier = @ \/ hLast.thisRun, !.thisRun = FALSE]
    /\ result' = NoResult
    /\ UNCHANGED <<proc, abortedBy, exitStatus, alive, owner, inst, cerr, registry, h>>
    /\ obs' = Quiet
    /\ UNCHANGED hAdds

\* RunAllTests: the next entry of _tests, "Begin testing", newTest.second()
RunAllTestsBegin ==
    /\ AtTop("RunAllTests", "loop")
    /\ rat.it < Len(Keys(registry))
    /\ LET newTest == Keys(registry)[rat.it + 1]
       IN /\ out' = <<<<"Begin testing:", newTest>>>>
          /\ inst' = Factory(registry[newTest])
    /\ alive' = TRUE
    /\ owner' = "RunAllTests"
    /\ h' = NewHistory
    /\ stack' = Goto("define")
    /\ hLast' = [hLast EXCEPT !.whole = TRUE]
    /\ UNCHANGED <<proc, abortedBy, exitStatus, result, cerr, registry, rat, hRun>>
    /\ obs' = Quiet
    /\ UNCHANGED hAdds

\* faulty variant of RunAllTestsDefine: the cases are run without Define()
RunAllTestsDefineSkipped ==
    /\ AtTop("RunAllTests", "define")
    /\ stack' = Goto("names")
    /\ UNCHANGED <<proc, abortedBy, exitStatus, result, alive, owner, inst, cerr, registry, rat,
                   out, h, hLast, hRun>>
    /\ obs' = Quiet
    /\ UNCHANGED hAdds

\* RunAllTests: testInstance->Define()
RunAllTestsDefine ==
    /\ AtTop("RunAllTests", "define")
    /\ stack' = <<Frame("Define", "body", "", 0, 0)>> \o Goto("names")
    /\ h' = [h EXCEPT !.defineCalls = @ + 1]
    /\ UNCHANGED <<proc, abortedBy, exitStatus, result, alive, owner, inst, cerr, registry, rat,
                   out, hLast, hRun>>
    /\ obs' = Quiet
    /\ UNCHANGED hAdds

\* the Define() body returns
DefineReturn ==
    /\ AtTop("Define", "body")
    /\ stack' = Tail(stack)
    /\ h' = [h EXCEPT !.defineDone = TRUE]
    /\ UNCHANGED <<proc, abortedBy, exitStatus, result, alive, owner, inst, cerr, registry, rat,
                   out, hLast, hRun>>
    /\ obs' = Quiet
    /\ UNCHANGED hAdds

\* RunAllTests: subTestNumPassed = 0 and the vector the range-for walks
RunAllTestsNames ==
    /\ AtTop("RunAllTests", "names")
    /\ rat' = [rat EXCEPT !.subTestNumPassed = 0, !.names = GetTestNames(inst), !.n = 0]
    /\ stack' = Goto("cases")
    /\ UNCHANGED <<proc, abortedBy, exitStatus, result, alive, owner, inst, cerr, registry, out, h, hLast, hRun>>
    /\ obs' = Quiet
    /\ UNCHANGED hAdds

\* RunAllTests: "Running:", testInstance->RunTest(n)
RunAllTestsRun ==
    /\ AtTop("RunAllTests", "cases")
    /\ rat.n < Len(rat.names)
    /\ out' = <<<<"Running:", rat.names[rat.n + 1]>>>>
    /\ stack' = <<Frame("RunTest", "begin", rat.names[rat.n + 1], 0, 0)>> \o Goto("ret")
    /\ UNCHANGED <<proc, abortedBy, exitStatus, result, alive, owner, inst, cerr, registry, rat, h, hLast, hRun>>
    /\ obs' = Quiet
    /\ UNCHANGED hAdds

\* RunAllTests: OutResult(result), subTestNumPassed += result
RunAllTestsAcc ==
    /\ AtTop("RunAllTests", "ret")
    /\ out' = <<<<"OutResult", result.value>>>>
    /\ rat' = [rat EXCEPT !.subTestNumPassed = CountPassed(@, result.value), !.n = @ + 1]
    /\ stack' = Goto("cases")
    /\ result' = NoResult
    /\ UNCHANGED <<proc, abortedBy, exitStatus, alive, owner, inst, cerr, registry, h,
                   hLast, hRun>>
    /\ obs' = Quiet
    /\ UNCHANGED hAdds

\* RunAllTests: the log, the summary of the suite, testPassed, delete testInstance.
\* AutomatedTestInstance has no virtual destructor, so deleting a T through the
\* base pointer is undefined: the members of AutomatedTestInstance are destroyed
\* and the storage is released, the members T adds are destroyed or not.
RunAllTestsSuiteEnd ==
    /\ AtTop("RunAllTests", "cases")
    /\ ~(rat.n < Len(rat.names))
    /\ LET newTest == Keys(registry)[rat.it + 1]
           passed == SuitePassed(rat.subTestNumPassed, inst)
       IN /\ out' = <<
                 <<"Log", GetLog(inst)>>,
                 <<"Result completed tests", rat.subTestNumPassed, Len(GetTestNames(inst))>>,
                 <<"Completed with result", newTest, passed>> >>
          /\ rat' = [NoLocals EXCEPT !.testPassed = rat.testPassed + BoolToUnsigned(passed),
                                     !.it = rat.it + 1]
          /\ hRun' = Append(hRun, [name |-> newTest, declared |-> Len(h.declared),
                                   trueRuns |-> h.trueRuns, defineCalls |-> h.defineCalls])
    /\ alive' = FALSE
    /\ \E whole \in BOOLEAN :
          hLast' = [hLast EXCEPT !.thisRun = @ \/ Residue(inst), !.whole = whole]
    /\ inst' = AutomatedTestInstance
    /\ h' = NewHistory
    /\ stack' = Goto("loop")
    /\ UNCHANGED <<proc, abortedBy, exitStatus, result, owner, cerr, registry>>
    /\ obs' = Quiet
    /\ UNCHANGED hAdds

\* RunAllTests: "Testing ended with result", return (testPassed == _tests.size())
RunAllTestsReturn ==
    /\ AtTop("RunAllTests", "loop")
    /\ ~(rat.it < Len(Keys(registry)))
    /\ out' = <<<<"Testing ended with result", AllPassed(rat.testPassed, registry)>>>>
    /\ result' = Returned("RunAllTests", "", AllPassed(rat.testPassed, registry))
    /\ stack' = Tail(stack)
    /\ hLast' = [hLast EXCEPT !.whole = TRUE]
    /\ UNCHANGED <<proc, abortedBy, exitStatus, alive, owner, inst, cerr, registry, rat,
                   h, hRun>>
    /\ obs' = Quiet
    /\ UNCHANGED hAdds

\* RUN_ALL_TESTS: main returns !RunAllTests(argc, argv)
RunAllTestsExit ==
    /\ Idle /\ result.fn = "RunAllTests"
    /\ exitStatus' = ExitStatus(result.value)
    /\ proc' = "exited"
    /\ UNCHANGED <<abortedBy, stack, result, alive, owner, inst, cerr, registry, rat, out,
                   h, hLast, hRun>>
    /\ obs' = Quiet
    /\ UNCHANGED hAdds

\* ---------------------------------------------------------------- specification

\* user code calls GetResult(name); flowing off the end of a value-returning
\* function is undefined: any value comes back, or the process dies
GetResultCall(name) ==
    /\ ClientIdle
    /\ LET r == GetResult(inst, name)
       IN IF r # UNDEFINED
          THEN /\ obs' = [Seen("GetResult", name, 0, 0, r) EXCEPT !.asked = name, !.prev = r]
               /\ UNCHANGED proc
          ELSE \/ \E any \in ETestStatus \cup {"GARBAGE"} :
                     /\ obs' = Forget(Seen("GetResult", name, 0, 0, any))
                     /\ UNCHANGED proc
               \/ /\ proc' = "crashed"
                  /\ obs' = Forget(Seen("GetResult", name, 0, 0, ""))
    /\ UNCHANGED <<abortedBy, exitStatus, stack, result, alive, owner, inst, cerr,
                   registry, rat, out, h, hLast, hRun, hAdds>>

\* user code calls GetLog()
GetLogCall ==
    /\ ClientIdle
    /\ obs' = [Seen("GetLog", "", 0, 0, "") EXCEPT !.text = GetLog(inst)]
    /\ UNCHANGED <<proc, abortedBy, exitStatus, stack, result, alive, owner, inst, cerr,
                   registry, rat, out, h, hLast, hRun, hAdds>>

\* user code calls ResetLog()
ResetLogCall ==
    /\ ClientIdle
    /\ inst' = ResetLog(inst)
    /\ obs' = Seen("ResetLog", "", 0, 0, "")
    /\ UNCHANGED <<proc, abortedBy, exitStatus, stack, result, alive, owner, cerr,
                   registry, rat, out, h, hLast, hRun, hAdds>>

\* the RunTest calls that have not returned
Depth == Cardinality({k \in DOMAIN stack : stack[k].fn = "RunTest"})

\* the test function calls ResetFlags() of its own suite
DoWorkResetFlags ==
    /\ AtTop("DoWork", "body") /\ Top.i < MaxOps
    /\ inst' = ResetFlags(inst)
    /\ stack' = <<[Top EXCEPT !.i = @ + 1]>> \o Tail(stack)
    /\ obs' = Quiet
    /\ UNCHANGED <<proc, abortedBy, exitStatus, result, alive, owner, cerr, registry, rat,
                   out, h, hLast, hRun, hAdds>>

\* the test function calls RunTest(name) of its own suite
DoWorkRunTest(name) ==
    /\ AtTop("DoWork", "body") /\ Top.i < MaxOps
    /\ Depth < MaxDepth
    /\ stack' = <<Frame("RunTest", "begin", name, 0, 0), [Top EXCEPT !.i = @ + 1]>>
                   \o Tail(stack)
    /\ obs' = Quiet
    /\ UNCHANGED <<proc, abortedBy, exitStatus, result, alive, owner, inst, cerr, registry,
                   rat, out, h, hLast, hRun, hAdds>>

\* the test function calls TestCase(name, f) of its own suite; the push_back may
\* reallocate _tests and so destroy the std::function that is executing, after
\* which the test function either goes on or the process dies
DoWorkTestCase(name) ==
    /\ AtTop("DoWork", "body") /\ Top.i < MaxOps
    /\ Len(inst._tests) < MaxCases
    /\ IF find_if(inst._tests, name) # Len(inst._tests)
       THEN /\ Abort("TestCase")
            /\ UNCHANGED <<inst, h, stack>>
       ELSE /\ inst' = TestCase(inst, name, Len(h.declared) + 1)
            /\ h' = [h EXCEPT !.declared = Append(@, name)]
            /\ stack' = <<[Top EXCEPT !.i = @ + 1]>> \o Tail(stack)
            /\ abortedBy' = abortedBy
            /\ \E dies \in BOOLEAN : proc' = IF dies THEN "crashed" ELSE proc
    /\ obs' = Quiet
    /\ UNCHANGED <<exitStatus, result, alive, owner, cerr, registry, rat, out, hLast, hRun,
                   hAdds>>

\* RunTest after the test function returned with _currentRunningTest reset to -1:
\* _testStatus[-1] is written, outside the vector; the write either shows nowhere
\* in the suite or the process dies
RunTestEndStray ==
    /\ AtTop("RunTest", "work")
    /\ inst._currentRunningTest + 1 \notin DOMAIN inst._testStatus
    /\ \/ /\ result' = Returned("RunTest", Top.name, ~inst._failed)
          /\ stack' = Tail(stack)
          /\ UNCHANGED proc
       \/ /\ proc' = "crashed"
          /\ UNCHANGED <<result, stack>>
    /\ obs' = Quiet
    /\ UNCHANGED <<abortedBy, exitStatus, alive, owner, inst, cerr, registry, rat, out, h,
                   hLast, hRun, hAdds>>

InitProgram ==
    /\ proc = "running"
    /\ abortedBy = ""
    /\ exitStatus = -1
    /\ stack = <<>>
    /\ result = NoResult
    /\ alive = FALSE
    /\ owner = "client"
    /\ inst = AutomatedTestInstance
    /\ cerr = <<>>
    /\ registry = [testName \in {} |-> "T1"]
    /\ rat = NoLocals
    /\ out = <<>>
    /\ h = NewHistory
    /\ hLast = NoLast
    /\ hRun = <<>>
    /\ hAdds = <<>>

Init ==
    /\ InitProgram
    /\ obs = NoObs

Next ==
    \/ New
    \/ Delete
    \/ \E name \in CaseNames : TestCaseCall(name)
    \/ ResetFlagsCall
    \/ \E name \in CaseNames : RunTestCall(name)
    \/ RunTestBegin
    \/ \E expression \in BOOLEAN : TestTrueCall(expression)
    \/ \E expression \in BOOLEAN : TestFalseCall(expression)
    \/ \E value \in Values, expected \in Values : TestEqualCall(value, expected)
    \/ OutLogCall
    \/ DoWorkReturn
    \/ RunTestEnd
    \/ RunAllCall
    \/ RunAllLoop
    \/ RunAllAcc
    \/ RunAllReturn
    \/ \E testName \in {SuiteNames[k] : k \in DOMAIN SuiteNames}, T \in Classes :
           AddTestCall(testName, T)
    \/ RunAllTestsCall
    \/ RunAllTestsBegin
    \/ RunAllTestsDefine
    \/ DefineReturn
    \/ RunAllTestsNames
    \/ RunAllTestsRun
    \/ RunAllTestsAcc
    \/ RunAllTestsSuiteEnd
    \/ RunAllTestsReturn
    \/ RunAllTestsExit

Spec == Init /\ [][Next]_vars

\* ---- a suite used directly by user code that runs single cases and asks for
\* ---- their results, every call observed ----

InitUse ==
    /\ InitProgram
    /\ obs = [NoObs EXCEPT !.on = TRUE]

NextUse ==
    \/ New
    \/ Delete
    \/ \E name \in CaseNames : TestCaseCall(name)
    \/ ResetFlagsCall
    \/ \E name \in CaseNames : RunTestCall(name)
    \/ RunTestBegin
    \/ \E expression \in BOOLEAN : TestTrueCall(expression)
    \/ \E expression \in BOOLEAN : TestFalseCall(expression)
    \/ \E value \in Values, expected \in Values : TestEqualCall(value, expected)
    \/ OutLogCall
    \/ DoWorkReturn
    \/ RunTestEnd
    \/ \E name \in CaseNames : GetResultCall(name)

SpecUse == InitUse /\ [][NextUse]_vars

\* ---- a suite used directly by user code that reads and resets its log ----

NextLog ==
    \/ New
    \/ Delete
    \/ \E name \in CaseNames : TestCaseCall(name)
    \/ ResetFlagsCall
    \/ \E name \in CaseNames : RunTestCall(name)
    \/ RunTestBegin
    \/ \E expression \in BOOLEAN : TestTrueCall(expression)
    \/ \E expression \in BOOLEAN : TestFalseCall(expression)
    \/ \E value \in Values, expected \in Values : TestEqualCall(value, expected)
    \/ OutLogCall
    \/ DoWorkReturn
    \/ RunTestEnd
    \/ RunAllCall
    \/ RunAllLoop
    \/ RunAllAcc
    \/ RunAllReturn
    \/ GetLogCall
    \/ ResetLogCall

SpecLog == InitUse /\ [][NextLog]_vars

\* ---- a suite whose test functions call back into the suite ----

NextReentrant ==
    \/ New
    \/ Delete
    \/ \E name \in CaseNames : TestCaseCall(name)
    \/ \E name \in CaseNames : RunTestCall(name)
    \/ RunTestBegin
    \/ \E expression \in BOOLEAN : TestTrueCall(expression)
    \/ DoWorkResetFlags
    \/ \E name \in CaseNames : DoWorkRunTest(name)
    \/ \E name \in CaseNames : DoWorkTestCase(name)
    \/ DoWorkReturn
    \/ RunTestEnd
    \/ RunTestEndStray

SpecReentrant == Init /\ [][NextReentrant]_vars

\* ---- registration alone, every AddTest observed ----

NextReg ==
    \E testName \in {SuiteNames[k] : k \in DOMAIN SuiteNames}, T \in Classes :
        AddTestCall(testName, T)

SpecReg == InitUse /\ [][NextReg]_vars

\* ---------------------------------------------------------------- properties

\* the position RunTest(name) finds in the current instance, 1-based
Slot(name) == find_if(inst._tests, name) + 1

\* the function and position on top of the call stack, also after an abort
TopIs(fn, pc) == stack # <<>> /\ Head(stack).fn = fn /\ Head(stack).pc = pc

InFrame(fn) == \E k \in DOMAIN stack : stack[k].fn = fn

\* C1: GetTestNames() is the sequence of the declared names in declaration
\* order, and when RunAll() returns it has invoked the function of every
\* declared case exactly once, in declaration order.
C1_RunAllInvokesEachOnceInOrder ==
    /\ GetTestNames(inst) = h.declared
    /\ result.fn = "RunAll" => h.invoked = [k \in 1..Len(h.declared) |-> k]

\* RunAll() has returned on a suite of two cases
C1_Witness ==
    /\ result.fn = "RunAll"
    /\ Len(h.declared) >= 2
    /\ GetTestNames(inst)[1] # GetTestNames(inst)[2]

\* C2: when RunTest(n) has returned, the status of n is FAILED if an assertion
\* of its function failed and PASSED if none did, and the value returned is
\* true exactly when that status is PASSED.
C2_OutcomeFollowsAssertions ==
    result.fn = "RunTest" =>
        /\ Slot(result.name) \in DOMAIN inst._testStatus
        /\ inst._testStatus[Slot(result.name)] = (IF h.assertFailed THEN FAILED ELSE PASSED)
        /\ result.value <=> inst._testStatus[Slot(result.name)] = PASSED

\* RunTest has returned false for a case whose function made a failing
\* assertion
C2_Witness ==
    /\ result.fn = "RunTest"
    /\ ~result.value
    /\ h.assertFailed
    /\ inst._testStatus[Slot(result.name)] = FAILED

\* C3: the status of a case is NOT_TESTED exactly as long as no run of it has
\* completed in this instance; after that it is PASSED or FAILED.  (The set of
\* completed runs only grows while the instance lives, so a status never goes
\* back to NOT_TESTED.)
C3_NotTestedIffNeverRun ==
    alive =>
        /\ Len(inst._testStatus) = Len(inst._tests)
        /\ \A i \in DOMAIN inst._testStatus :
              /\ inst._testStatus[i] \in ETestStatus
              /\ inst._testStatus[i] = NOT_TESTED <=> (i - 1) \notin h.executed

\* a case has been run twice while another case of the suite has never run
C3_Witness ==
    /\ alive
    /\ h.rerun
    /\ result.fn = "RunTest"
    /\ \E i \in DOMAIN inst._testStatus : inst._testStatus[i] = NOT_TESTED
    /\ \E i \in DOMAIN inst._testStatus : inst._testStatus[i] = FAILED

\* C4: a step changes the status of a declared case only if it is the status
\* store of a RunTest call for that very case; the statuses of all other cases
\* are the same after the step as before it.
C4_RunTestWritesOnlyItsCase ==
    [][(alive /\ alive') =>
          \A j \in DOMAIN inst._testStatus :
              (j \in DOMAIN inst'._testStatus /\ inst'._testStatus[j] # inst._testStatus[j]) =>
                  /\ TopIs("RunTest", "work")
                  /\ Slot(Top.name) = j]_vars

\* a case was run again and passed while another case keeps its FAILED status
C4_Witness ==
    /\ result.fn = "RunTest"
    /\ h.rerun
    /\ result.value
    /\ \E j \in DOMAIN inst._testStatus : j # Slot(result.name) /\ inst._testStatus[j] = FAILED

\* C5: a run whose function made no failing assertion is recorded PASSED and
\* returns true even when the run before it on the same instance failed.
C5_FailureDoesNotCarryOver ==
    (result.fn = "RunTest" /\ h.prevFailed /\ ~h.assertFailed) =>
        /\ result.value
        /\ inst._testStatus[Slot(result.name)] = PASSED

\* inside RunAll(), a clean case has returned right after a failed one
C5_Witness ==
    /\ result.fn = "RunTest"
    /\ h.prevFailed
    /\ ~h.assertFailed
    /\ TopIs("RunAll", "ret")

\* every registered suite ran in the current RunAllTests and all its declared
\* cases returned true
EverySuiteFullyPassed ==
    \A testName \in DOMAIN registry :
        \E k \in DOMAIN hRun :
            hRun[k].name = testName /\ hRun[k].trueRuns = hRun[k].declared

\* C6: RunAllTests returns true exactly when every registered suite fully
\* passed, and the exit status of RUN_ALL_TESTS is 0 when it returned true and
\* 1 when it returned false.
C6_ResultAndExitStatus ==
    /\ result.fn = "RunAllTests" => (result.value <=> EverySuiteFullyPassed)
    /\ proc = "exited" => exitStatus = (IF result.value THEN 0 ELSE 1)

\* the process exited with 1 after a run of two suites of which one fully passed
C6_Witness ==
    /\ proc = "exited"
    /\ exitStatus = 1
    /\ Len(hRun) = 2
    /\ hRun[1].declared = 2 /\ hRun[1].trueRuns = 2
    /\ hRun[2].trueRuns < hRun[2].declared

\* C7: the summary RunAllTests writes for a suite gives the number of its runs
\* that returned true and the number of cases the suite declared.
C7_SuiteSummaryCounts ==
    \A l \in DOMAIN out :
        out[l][1] = "Result completed tests" =>
            /\ hRun # <<>>
            /\ out[l][2] = hRun[Len(hRun)].trueRuns
            /\ out[l][3] = hRun[Len(hRun)].declared
            /\ out[l + 1] = <<"Completed with result", hRun[Len(hRun)].name,
                              hRun[Len(hRun)].trueRuns = hRun[Len(hRun)].declared>>

\* the second suite of a run is reported 1/2 after a first suite with 2/2
C7_Witness ==
    /\ Len(out) = 3
    /\ out[2] = <<"Result completed tests", 1, 2>>
    /\ Len(hRun) = 2
    /\ hRun[1].trueRuns = 2 /\ hRun[1].declared = 2

\* C8: RunAllTests calls Define() on an instance as the first thing after the
\* factory made it and never again, and no test function of the instance is
\* invoked before that call has returned.
C8_DefineOnceBeforeAnyCase ==
    /\ (alive /\ owner = "RunAllTests") =>
          /\ h.defineCalls <= 1
          /\ h.defineCalls = 0 <=> TopIs("RunAllTests", "define")
          /\ ~h.defineDone <=> (TopIs("RunAllTests", "define") \/ TopIs("Define", "body"))
          /\ (h.invoked # <<>> \/ InFrame("RunTest") \/ InFrame("DoWork")) =>
                 (h.defineDone /\ h.defineCalls = 1)
    /\ \A k \in DOMAIN hRun : hRun[k].defineCalls = 1

\* a test function of a suite made by the registry is running
C8_Witness ==
    /\ alive /\ owner = "RunAllTests"
    /\ TopIs("DoWork", "body")
    /\ Len(h.declared) = 2
    /\ Len(h.invoked) = 2

\* C9: RunAllTests holds no suite instance when it moves to an entry, the
\* instance the factory makes for the entry is in the initial state whatever
\* earlier instances held, and after Define() every case of it is NOT_TESTED.
C9_FreshInstancePerEntry ==
    /\ TopIs("RunAllTests", "loop") => ~alive
    /\ TopIs("RunAllTests", "define") =>
          /\ alive
          /\ inst._tests = <<>> /\ inst._testStatus = <<>>
    /\ (TopIs("RunAllTests", "define") \/ TopIs("Define", "body")
           \/ TopIs("RunAllTests", "names")) =>
          /\ \A i \in DOMAIN inst._testStatus : inst._testStatus[i] = NOT_TESTED
          /\ inst._failed = FALSE
          /\ inst._currentRunningTest = -1
          /\ inst._log = <<>>

\* the first suite of a later RunAllTests has declared its cases, after an
\* earlier run deleted an instance with a FAILED case, _failed set, a current
\* test and log text
C9_Witness ==
    /\ TopIs("RunAllTests", "names")
    /\ hLast.earlier
    /\ rat.it = 0
    /\ Len(inst._tests) = 2

\* C10 as stated: while a test function runs, a failed assertion leaves the
\* process running.  TestEqual breaks it: after a mismatch it reaches
\* assert(false).
C10_AssertionFailureNeverAborts ==
    (h.assertFailed /\ InFrame("DoWork")) => proc = "running"

\* C11 (as the code has it): a TestEqual whose values differ sets _failed and
\* writes exactly one line, naming the running case, to std::cerr, and leaves the
\* suite's log as it was; a TestEqual whose values are equal returns true and
\* leaves _failed, the log and std::cerr as they were.
C11_MismatchGoesToCerr ==
    [][obs'.op = "TestEqual" =>
         /\ inst'._log = inst._log
         /\ IF obs'.value # obs'.expected
            THEN /\ inst'._failed
                 /\ Len(cerr') = Len(cerr) + 1
                 /\ SubSeq(cerr', 1, Len(cerr)) = cerr
                 /\ cerr'[Len(cerr')].In = Top.name
                 /\ Top.name = GetTestNames(inst)[inst._currentRunningTest + 1]
            ELSE /\ obs'.ret = "true"
                 /\ inst'._failed = inst._failed
                 /\ cerr' = cerr]_vars

\* a case called TestEqual with different values: the line is on std::cerr, the
\* log is empty
C11_Witness ==
    /\ obs.op = "TestEqual" /\ obs.value # obs.expected
    /\ TopIs("DoWork", "body")
    /\ inst._failed
    /\ Len(cerr) = 1 /\ cerr[1].In = obs.name
    /\ inst._log = <<>>

\* C11 as stated: a TestEqual whose values differ appends exactly one line,
\* naming the running case, to the suite's log.
C11_MismatchAppendsToLog ==
    [][(obs'.op = "TestEqual" /\ obs'.value # obs'.expected) =>
         /\ Len(inst'._log) = Len(inst._log) + 1
         /\ inst'._log[Len(inst'._log)] = Top.name]_vars

\* C12: TestCase(name) with a name that is not declared appends one case whose
\* status is NOT_TESTED; with a name that is declared it aborts the process and
\* appends nothing; so the names of the declared cases are pairwise distinct in
\* every reachable state.
C12_CaseNamesDistinct ==
    /\ [](\A i, j \in 1..Len(inst._tests) :
             inst._tests[i].Name = inst._tests[j].Name => i = j)
    /\ [][obs'.op = "TestCase" =>
            IF \E i \in 1..Len(inst._tests) : inst._tests[i].Name = obs'.name
            THEN /\ proc' = "aborted" /\ abortedBy' = "TestCase"
                 /\ inst' = inst
            ELSE /\ proc' = proc
                 /\ GetTestNames(inst') = Append(GetTestNames(inst), obs'.name)
                 /\ inst'._testStatus = Append(inst._testStatus, NOT_TESTED)]_vars

\* TestCase was called with the name of a declared case and the process is gone
C12_Witness ==
    /\ obs.op = "TestCase"
    /\ proc = "aborted" /\ abortedBy = "TestCase"
    /\ Len(inst._tests) = 1 /\ inst._tests[1].Name = obs.name

\* the registry a sequence of AddTest calls builds
RECURSIVE Registered(_)
Registered(adds) ==
    IF adds = <<>>
    THEN [testName \in {} |-> "T1"]
    ELSE LET last == adds[Len(adds)]
         IN AddTest(Registered(SubSeq(adds, 1, Len(adds) - 1)), last[1], last[2])

\* the suites RunAllTests constructs and runs, in the order of its loop
Entries(tests) ==
    [k \in 1..Len(Keys(tests)) |-> <<Keys(tests)[k], tests[Keys(tests)[k]]>>]

\* every order in which the calls of adds can be made
Reorderings(adds) ==
    {[i \in 1..Len(adds) |-> adds[p[i]]] : p \in Permutations(1..Len(adds))}

DistinctNames(adds) ==
    \A i, j \in 1..Len(adds) : adds[i][1] = adds[j][1] => i = j

\* C13 (as the code has it): when the names of the AddTest calls are pairwise
\* distinct, every order of the calls leaves RunAllTests the same suites to run in
\* the same order, so the same results; a name registered twice keeps the class
\* of the later call.
C13_OrderOfDistinctNamesIrrelevant ==
    DistinctNames(hAdds) =>
        \A adds \in Reorderings(hAdds) : Entries(Registered(adds)) = Entries(registry)

\* two suites were registered against the order of their names
C13_Witness ==
    /\ hAdds = << <<"B", "T1">>, <<"A", "T2">> >>
    /\ Entries(registry) = << <<"A", "T2">>, <<"B", "T1">> >>

\* C13 as stated: every order of the same AddTest calls leaves RunAllTests the
\* same suites to run.
C13_AnyOrderIrrelevant ==
    \A adds \in Reorderings(hAdds) : Entries(Registered(adds)) = Entries(registry)

\* C16 (as the code has it): AddTest with a name that is registered replaces the
\* class of that entry, keeps every other entry and the process goes on.
C16_DuplicateSuiteReplaces ==
    [][(obs'.op = "AddTest" /\ obs'.name \in DOMAIN registry) =>
         /\ proc' = "running"
         /\ DOMAIN registry' = DOMAIN registry
         /\ registry'[obs'.name] = hAdds'[Len(hAdds')][2]
         /\ \A k \in DOMAIN registry \ {obs'.name} : registry'[k] = registry[k]]_vars

\* a name was registered with one class and then with another
C16_Witness ==
    /\ hAdds = << <<"A", "T1">>, <<"A", "T2">> >>
    /\ proc = "running"
    /\ registry["A"] = "T2"

\* C16 as stated: AddTest with a name that is registered aborts the process and
\* leaves the entry as it was.
C16_DuplicateSuiteAborts ==
    [][(obs'.op = "AddTest" /\ obs'.name \in DOMAIN registry) =>
         /\ proc' = "aborted"
         /\ registry' = registry]_vars

C15_IndexOnlyWhileRunning ==
    (~InFrame("DoWork") /\ ~InFrame("RunTest")) => GetCurrentRunningTest(inst) = -1

\* C17: RunTest(name) with a name that is not declared aborts the process at its
\* assert: no test function is invoked and no status changes.
C17_UnknownNameAborts ==
    [][(AtTop("RunTest", "begin")
          /\ \A i \in 1..Len(inst._tests) : inst._tests[i].Name # Top.name) =>
         /\ proc' = "aborted" /\ abortedBy' = "RunTest"
         /\ stack' = stack
         /\ h'.invoked = h.invoked
         /\ inst'._testStatus = inst._testStatus]_vars

\* RunTest of a name that is not declared ended the process; the status of an
\* earlier run is still there
C17_Witness ==
    /\ proc = "aborted" /\ abortedBy = "RunTest"
    /\ TopIs("RunTest", "begin")
    /\ \A i \in 1..Len(inst._tests) : inst._tests[i].Name # Top.name
    /\ inst._testStatus = <<PASSED>>
    /\ h.invoked = <<>>

IsPrefix(s, t) == Len(s) <= Len(t) /\ SubSeq(t, 1, Len(s)) = s

\* C18: while a suite instance lives its log only grows at the end: after every
\* step the text before it is a prefix of the text after it, every text GetLog()
\* returns has the text it returned before as a prefix, and ResetLog() removes
\* nothing.
C18_LogAppendOnly ==
    [][(alive /\ alive') =>
         /\ IsPrefix(GetLog(inst), GetLog(inst'))
         /\ obs'.op = "GetLog" => (obs'.text = GetLog(inst) /\ IsPrefix(obs.text, obs'.text))
         /\ obs'.op = "ResetLog" => GetLog(inst') = GetLog(inst)]_vars

\* ResetLog() was called on a log that GetLog() had returned with a line in it,
\* and the line is still there
C18_Witness ==
    /\ obs.op = "ResetLog"
    /\ obs.text # <<>>
    /\ GetLog(inst) = obs.text

\* C19 as stated: when RunTest(n) returns, the status it stores goes to the
\* position the lookup of n found, a position of a declared case, whatever the
\* test function did with the suite in between.
C19_StoreGoesToLookedUpCase ==
    [][(AtTop("RunTest", "work") /\ stack' = Tail(stack)) =>
         /\ Top.i \in 0..(Len(inst._testStatus) - 1)
         /\ GetCurrentRunningTest(inst) = Top.i
         /\ \A k \in DOMAIN inst._testStatus :
                k # Top.i + 1 => inst'._testStatus[k] = inst._testStatus[k]]_vars

\* C20: a suite whose Define() declared no case is reported 0/0 and counted as
\* passed; RunAllTests on an empty registry returns true; the number of passed
\* cases of a suite never exceeds the number of its cases, and the number of
\* passed suites never exceeds the number of registered entries.
C20_VacuousPass ==
    /\ rat.subTestNumPassed <= Len(GetTestNames(inst))
    /\ rat.testPassed <= Cardinality(DOMAIN registry)
    /\ rat.testPassed =
           Cardinality({k \in DOMAIN hRun : hRun[k].declared = 0
                                              \/ hRun[k].trueRuns = hRun[k].declared})
    /\ \A l \in DOMAIN out :
           out[l][1] = "Result completed tests" =>
               /\ out[l][2] <= out[l][3]
               /\ out[l][3] = 0 => out[l + 1][3] = TRUE
    /\ (result.fn = "RunAllTests" /\ DOMAIN registry = {}) => result.value

\* RunAllTests returned true after a suite without cases and a suite with two
C20_Witness ==
    /\ result.fn = "RunAllTests" /\ result.value
    /\ Len(hRun) = 2
    /\ hRun[1].declared = 0
    /\ hRun[2].declared = 2
    /\ rat.testPassed = 2

====
